---- MODULE Spec2Model ----
(***************************************************************************)
(* Model of the navocap odometer driver (src/odo.c): a 32-bit i.MX27       *)
(* general purpose timer counting odometer pulses, extended in software    *)
(* to 64 bits, with access telemetry, published through sysfs attributes.  *)
(*                                                                         *)
(* Every sysfs handler is a sequence of steps, one per access to shared    *)
(* memory or to a timer register, run by one of the threads of Threads:    *)
(* the handlers take no lock, and sysfs serves two open files at once.     *)
(* The timer hardware (Pulse) and the kernel clock (Tick) run beside them. *)
(***************************************************************************)
EXTENDS Integers, Sequences, FiniteSets, TLC

(* ------------------------------------------------------------------ *)
(* Machine words.  A 32-bit word (a timer register, an int, an unsigned *)
(* long of the i.MX27) is the pair <<high half, low half>> of its two   *)
(* 16-bit halves, so that every value of the range is represented.      *)
(* ------------------------------------------------------------------ *)

WordBits == 32

Limb == 2 ^ 16

Bits == 0 .. (WordBits - 1)

Zero == <<0, 0>>

One == <<0, 1>>

\* 0xFFFFFFFF
WordMax == <<Limb - 1, Limb - 1>>

\* The word of a number below 2^16.
W(n) == <<0, n>>

WBit(w, bit) ==
    IF bit < 16 THEN (w[2] \div (2 ^ bit)) % 2 ELSE (w[1] \div (2 ^ (bit - 16))) % 2

WBits(w) == {bit \in Bits : WBit(w, bit) = 1}

RECURSIVE SumPow(_, _)
SumPow(S, base) ==
    IF S = {} THEN 0
    ELSE LET b == CHOOSE x \in S : TRUE
         IN  2 ^ (b - base) + SumPow(S \ {b}, base)

WFromBits(S) ==
    <<SumPow({b \in S : b >= 16 /\ b < WordBits}, 16), SumPow({b \in S : b < 16}, 0)>>

\* a | b
WOr(a, b) == WFromBits(WBits(a) \cup WBits(b))

\* w << n, the bits shifted past bit 31 lost
WShl(w, n) == WFromBits({b + n : b \in WBits(w)})

WLess(a, b) == a[1] < b[1] \/ (a[1] = b[1] /\ a[2] < b[2])

WLeq(a, b) == a = b \/ WLess(a, b)

\* w + 1 modulo 2^32
WInc(w) ==
    IF w[2] < Limb - 1 THEN <<w[1], w[2] + 1>>
    ELSE IF w[1] < Limb - 1 THEN <<w[1] + 1, 0>>
    ELSE Zero

\* a - b modulo 2^32
WSub(a, b) ==
    LET borrow == IF a[2] < b[2] THEN 1 ELSE 0
    IN  <<(a[1] - b[1] - borrow + Limb) % Limb, (a[2] - b[2] + Limb) % Limb>>

\* w * k modulo 2^32, for 0 <= k < 2^15
WMulSmall(w, k) ==
    LET p0 == w[2] * k
    IN  <<(w[1] * k + (p0 \div Limb)) % Limb, p0 % Limb>>

\* w / d truncated, for 0 < d < 2^15
WDivSmall(w, d) ==
    <<w[1] \div d, (((w[1] % d) * Limb) + w[2]) \div d>>

\* The exact product w * k as three 16-bit limbs <<l2, l1, l0>>.
XMulSmall(w, k) ==
    LET p0 == w[2] * k
        p1 == w[1] * k + (p0 \div Limb)
    IN  <<p1 \div Limb, p1 % Limb, p0 % Limb>>

\* x / d truncated on three limbs, for 0 < d < 2^15
XDivSmall(x, d) ==
    LET r2 == x[1] % d
        n1 == r2 * Limb + x[2]
        r1 == n1 % d
    IN  <<x[1] \div d, n1 \div d, (r1 * Limb + x[3]) \div d>>

\* The three limbs of a word.
XOfWord(w) == <<0, w[1], w[2]>>

(* ------------------------------------------------------------------ *)
(* Register map and fields (position, size)                            *)
(* ------------------------------------------------------------------ *)

TCTL_REG == 0

TPRER_REG == 4

TCMP_REG == 8

TCN_REG == 16

TSTAT_REG == 20

Regs == {TCTL_REG, TPRER_REG, TCMP_REG, TCN_REG, TSTAT_REG}

TCTL_TEN == <<0, 1>>

TCTL_CLKSOURCE == <<1, 3>>

TCTL_COMP_EN == <<4, 1>>

TCTL_FRR == <<8, 1>>

TCTL_CC == <<10, 1>>

TCMP_CMP == <<0, 32>>

TPRER_PRESCALER == <<0, 10>>

TSTAT_COMP == 1

\* The value of field f = <<pos, sz>> in the register value v, as a word.
Field(v, f) == WFromBits({b - f[1] : b \in {x \in WBits(v) : x >= f[1] /\ x < f[1] + f[2]}})

(* ------------------------------------------------------------------ *)
(* odo_set_gpt_field: the value written back for a register read as v  *)
(* ------------------------------------------------------------------ *)

RECURSIVE ResetFieldBits(_, _, _)
\* for (bit = pos; bit < pos + sz; ++bit) v &= ~(1 << bit);
\* on the set of the bits of v that are 1
ResetFieldBits(bits, bit, end) ==
    IF bit >= end THEN bits ELSE ResetFieldBits(bits \ {bit}, bit + 1, end)

\* a write that pushes the shifted value alone
gpt_field_value_overwrite(v, pos, sz, val) == WShl(val, pos)

\* v with the field reset and mask = val << pos merged in (v |= mask): what
\* iowrite32 pushes
gpt_field_value(v, pos, sz, val) ==
    WFromBits(ResetFieldBits(WBits(v), pos, pos + sz) \cup WBits(WShl(val, pos)))

\* The whole read-modify-write on a register file r, when nothing interleaves.
odo_set_gpt_field(r, reg, f, val) ==
    [r EXCEPT ![reg] = gpt_field_value(r[reg], f[1], f[2], val)]

\* The registers of the timer block out of hardware reset.
HwResetRegs == [reg \in Regs |-> IF reg = TCMP_REG THEN WordMax ELSE Zero]

\* odo_timer_setup: the eight field writes, in the order of the code.
odo_timer_setup(r0) ==
    LET r1 == odo_set_gpt_field(r0, TCTL_REG, TCTL_TEN, Zero)
        r2 == odo_set_gpt_field(r1, TCTL_REG, TCTL_CC, One)
        r3 == odo_set_gpt_field(r2, TCTL_REG, TCTL_CLKSOURCE, W(3))
        r4 == odo_set_gpt_field(r3, TPRER_REG, TPRER_PRESCALER, Zero)
        r5 == odo_set_gpt_field(r4, TCTL_REG, TCTL_COMP_EN, One)
        r6 == odo_set_gpt_field(r5, TCTL_REG, TCTL_FRR, Zero)
        r7 == odo_set_gpt_field(r6, TCMP_REG, TCMP_CMP, WordMax)
    IN  odo_set_gpt_field(r7, TCTL_REG, TCTL_TEN, One)

(* ------------------------------------------------------------------ *)
(* kstrtoint(buf, 10, &reset): a string is a sequence of characters    *)
(* ------------------------------------------------------------------ *)

Errno == [EINVAL |-> 22, ERANGE |-> 34]

IntLimits == [max |-> 2147483647, min |-> (-2147483647) - 1]

Digits == <<"0", "1", "2", "3", "4", "5", "6", "7", "8", "9">>

IsDigit(c) == \E i \in 1 .. 10 : Digits[i] = c

DigitVal(c) == (CHOOSE i \in 1 .. 10 : Digits[i] = c) - 1

RECURSIVE ParseInteger(_, _, _, _)
\* _parse_integer: the leading digits of s from index i, accumulated below zero
\* so that INT_MIN is reached; over is set once the value leaves the int range.
ParseInteger(s, i, acc, over) ==
    IF i > Len(s) \/ ~IsDigit(s[i]) THEN [next |-> i, neg |-> acc, over |-> over]
    ELSE LET d == DigitVal(s[i])
             \* acc * 10 - d >= INT_MIN, tested without leaving the int range
             fits == ~over /\ acc >= (IntLimits.min + d + 9) \div 10
         IN  ParseInteger(s, i + 1, IF fits THEN acc * 10 - d ELSE acc, ~fits)

\* kstrtoint: [ret |-> 0 or -errno, val |-> the int stored when ret = 0]
kstrtoint(s) ==
    LET minus == Len(s) > 0 /\ s[1] = "-"
        plus == Len(s) > 0 /\ s[1] = "+"
        first == IF minus \/ plus THEN 2 ELSE 1
        p == ParseInteger(s, first, 0, FALSE)
        afternl == IF p.next <= Len(s) /\ s[p.next] = "\n" THEN p.next + 1 ELSE p.next
    IN  IF p.next = first THEN [ret |-> -Errno.EINVAL, val |-> 0]
        ELSE IF afternl <= Len(s) THEN [ret |-> -Errno.EINVAL, val |-> 0]
        ELSE IF p.over THEN [ret |-> -Errno.ERANGE, val |-> 0]
        ELSE IF minus THEN [ret |-> 0, val |-> p.neg]
        ELSE IF p.neg = IntLimits.min THEN [ret |-> -Errno.ERANGE, val |-> 0]
        ELSE [ret |-> 0, val |-> -p.neg]

(* ------------------------------------------------------------------ *)
(* Bounds of the model                                                 *)
(* ------------------------------------------------------------------ *)

\* Handler calls (reads and writes of the attributes) started in one run, with
\* one caller at a time and with callers running at once.
MaxCalls == 3

MaxConcCalls == 2

\* Wraps of the hardware counter in one run.
MaxWraps == 1

\* The threads serving the attributes; SeqThreads for one caller at a time.
Threads == {"t1", "t2"}

SeqThreads == {"t1"}

\* Counts the hardware counter is observed at: a burst of pulses takes it from
\* one to a later one.
TCNValues == {Zero, One, WordMax}

\* Values of jiffies the clock is observed at, in the order it passes them:
\* 0, 1 and 1 + 4294968 (0x00418939), 11.9 hours later at HZ = 100.
JiffiesSeq == <<Zero, One, <<65, 35129>>>>

\* The strings written to the reset attribute.
WriteInputs ==
    { <<"1">>, <<"1", "\n">>, <<"4", "9">>,
      <<"0">>, <<"2", "\n">>, <<"-", "1">>,
      <<"2", "1", "4", "7", "4", "8", "3", "6", "4", "8">>,
      <<>>, <<"\n">>, <<"a", "b", "c">>, <<"1", "x">>, <<"1", " ">> }

\* What an int left uninitialised may hold.
UninitInt == {0, 1}

HZ == 100

\* wd,period_s of the device tree, in seconds.
WdPeriod == 60

(* ------------------------------------------------------------------ *)
(* State                                                               *)
(* ------------------------------------------------------------------ *)

VARIABLES
    regs,         \* the timer block: register offset -> word
    odo,          \* struct _odo: counter_ms, counter_ls, nb_access, first_access, last_access
    jiffies,      \* the kernel tick counter
    pc,           \* per thread: the statement it is at, "idle" between calls
    tmp,          \* per thread: the value loaded for a read-modify-write or read from the count
    out,          \* per thread: the value the handler prints, <<high word, low word>>
    buf,          \* per thread: the string being written to the reset attribute
    ret,          \* per thread: the value a store handler returns
    calls_left,   \* handler calls the run may still start
    wraps,        \* history: wraps of the hardware counter
    comp_sets,    \* history: times the hardware raised the compare flag from 0 to 1
    reset_seen,   \* history: a reset has been started
    first_query,  \* history: "resetting", "armed" after a reset returned, then the thread of the first query
    last_ret,     \* history: <<value returned by the latest query>>, <<>> after a reset
    epoch_first,  \* history: <<clock value of the first query of the epoch, of the latest>>
    qdone,        \* history: queries returned since the latest reset
    chip,         \* struct picodo_chip: counter, nb_access, first_access, last_access
    pic,          \* the PIC counter: its count, its reset line, the resets it went through
    snap,         \* history, per thread: chip and the resets of the PIC when its call began
    modinit,      \* odo_init and odo_exit: the statement reached, gpt_id, the table reads made
    wd,           \* struct _wd: period_s, last_trig_s, stopped
    line,         \* the lines of the watchdog: inhib, clock, trig
    wl,           \* per thread: the locals of a watchdog handler (inhibited, clk, rest)
    latch         \* history: a read saw the watchdog stopped; per thread, it had when the read began

hw == <<regs, jiffies>>

locals == <<pc, tmp, out, buf, ret>>

history == <<calls_left, wraps, comp_sets, reset_seen, first_query, last_ret, epoch_first, qdone>>

\* the state of the I2C-backed module (picodo.c)
picodo == <<chip, pic, snap>>

\* the state of the timer-backed module (odo.c) that picodo.c does not share
odometer == <<regs, odo, wraps, comp_sets, reset_seen, first_query, last_ret, epoch_first, qdone>>

\* the state of the watchdog module (thelma7_hw_wd.c)
watchdog == <<wd, line, wl, latch>>

\* the state of odo_init and of the watchdog module
board == <<modinit, wd, line, wl, latch>>

vars == <<regs, odo, jiffies, pc, tmp, out, buf, ret,
          calls_left, wraps, comp_sets, reset_seen, first_query, last_ret, epoch_first, qdone,
          chip, pic, snap, modinit, wd, line, wl, latch>>

\* struct picodo_chip after picodo_probe, and the PIC after its reset
ChipInit == [counter |-> Zero, nb_access |-> 0, first_access |-> Zero, last_access |-> Zero]

PicInit == [count |-> Zero, gpio |-> "in", resets |-> 0]

\* int gpt_id = 2: odo_init done with the default timer
ModInitDone ==
    [pc |-> "loaded", gpt_id |-> 2, node |-> <<>>, validated |-> TRUE, rc |-> 0, used |-> <<>>]

\* the locals of a watchdog handler before it runs
WlInit == [inhibited |-> 0, clk |-> <<>>, now |-> Zero, rest |-> 0]

LatchInit == [seen |-> FALSE, must |-> [t \in Threads |-> FALSE]]

\* wd_init: kzalloc leaves stopped at 0, period_s comes from the device tree,
\* last_trig_s = jiffies / HZ, and the trig line is left low by wd_trig.
WdInit(period, inhib, clock) ==
    /\ wd = [period_s |-> period, last_trig_s |-> WDivSmall(jiffies, HZ), stopped |-> FALSE]
    /\ line = [inhib |-> inhib, clock |-> clock, trig |-> 0]
    /\ wl = [t \in Threads |-> WlInit]
    /\ latch = LatchInit

BoardInit ==
    /\ modinit = ModInitDone
    /\ WdInit(W(WdPeriod), 0, 0)

InitCore(ncalls) ==
    /\ regs = odo_timer_setup(HwResetRegs)
    /\ odo = [counter_ms |-> Zero, counter_ls |-> Zero, nb_access |-> Zero,
              first_access |-> Zero, last_access |-> Zero]
    /\ jiffies \in {JiffiesSeq[i] : i \in 1 .. Len(JiffiesSeq)}
    /\ pc = [t \in Threads |-> "idle"]
    /\ tmp = [t \in Threads |-> Zero]
    /\ out = [t \in Threads |-> <<Zero, Zero>>]
    /\ buf = [t \in Threads |-> <<>>]
    /\ ret = [t \in Threads |-> 0]
    /\ calls_left = ncalls
    /\ wraps = 0
    /\ comp_sets = 0
    /\ reset_seen = FALSE
    /\ first_query = "none"
    /\ last_ret = <<>>
    /\ epoch_first = <<>>
    /\ qdone = 0
    /\ chip = ChipInit
    /\ pic = PicInit
    /\ snap = [t \in Threads |-> [chip |-> ChipInit, resets |-> 0]]

InitWith(ncalls) == InitCore(ncalls) /\ BoardInit

\* The module loaded by odo_init, callers running at once.
Init == InitWith(MaxConcCalls)

\* The module loaded by odo_init, one caller at a time.
InitSeq == InitWith(MaxCalls)

(* ------------------------------------------------------------------ *)
(* The timer hardware and the clock                                    *)
(* ------------------------------------------------------------------ *)

\* What the timer block holds after iowrite32(v, vmem + reg): the flags of TSTAT
\* are cleared by writing 1 to them; a write of TCTL that leaves the timer
\* disabled (TEN = 0) with CC = 1 resets the count.
iowrite32(r, reg, v) ==
    IF reg = TSTAT_REG THEN [r EXCEPT ![TSTAT_REG] = WFromBits(WBits(r[TSTAT_REG]) \ WBits(v))]
    ELSE IF reg = TCTL_REG /\ Field(v, TCTL_TEN) = Zero /\ Field(v, TCTL_CC) = One
         THEN [r EXCEPT ![TCTL_REG] = v, ![TCN_REG] = Zero]
    ELSE [r EXCEPT ![reg] = v]

\* A burst of pulses on TIN while the timer is enabled: the count rises, at
\* most to the compare value.
PulseCount ==
    /\ Field(regs[TCTL_REG], TCTL_TEN) = One
    /\ \E c \in TCNValues :
         /\ WLess(regs[TCN_REG], c)
         /\ WLeq(c, regs[TCMP_REG])
         /\ regs' = [regs EXCEPT ![TCN_REG] = c]
    /\ UNCHANGED <<odo, jiffies, locals, history>>
    /\ UNCHANGED <<picodo, board>>

\* The pulse after the count met the compare value (restart on compare): the
\* count restarts from 0 and the compare flag of TSTAT is raised.
PulseWrapUpTo(n) ==
    /\ Field(regs[TCTL_REG], TCTL_TEN) = One
    /\ regs[TCN_REG] = regs[TCMP_REG]
    /\ wraps < n
    /\ regs' = [regs EXCEPT ![TCN_REG] = Zero,
                            ![TSTAT_REG] = WOr(@, W(TSTAT_COMP))]
    /\ wraps' = wraps + 1
    /\ comp_sets' = IF WBit(regs[TSTAT_REG], 0) = 0 THEN comp_sets + 1 ELSE comp_sets
    /\ first_query' = "none"
    /\ UNCHANGED <<odo, jiffies, locals, calls_left, reset_seen, last_ret, epoch_first, qdone>>
    /\ UNCHANGED <<picodo, board>>

PulseWrap == PulseWrapUpTo(MaxWraps)

\* The clock moves on to the next observed value.
Tick ==
    /\ \E i \in 1 .. (Len(JiffiesSeq) - 1) :
         /\ jiffies = JiffiesSeq[i]
         /\ jiffies' = JiffiesSeq[i + 1]
    /\ UNCHANGED <<regs, odo, locals, history>>
    /\ UNCHANGED <<picodo, board>>

(* ------------------------------------------------------------------ *)
(* counter_show: read of the counter attribute (odo.c 147-165)         *)
(* ------------------------------------------------------------------ *)

Goto(t, label) == pc' = [pc EXCEPT ![t] = label]

\* status = ioread32(TSTAT); if (status & TSTAT_COMP)
CounterShow_status(t) ==
    /\ pc[t] = "idle"
    /\ calls_left > 0
    /\ Goto(t, IF WBit(regs[TSTAT_REG], 0) = 1 THEN "q_ms_load" ELSE "q_read_count")
    /\ calls_left' = calls_left - 1
    /\ first_query' = IF first_query = "armed" THEN t ELSE first_query
    /\ UNCHANGED <<regs, odo, jiffies, tmp, out, buf, ret, wraps, comp_sets, reset_seen,
                   last_ret, epoch_first, qdone>>
    /\ UNCHANGED <<picodo, board>>

\* odo->counter_ms++ : the load
CounterShow_ms_load(t) ==
    /\ pc[t] = "q_ms_load"
    /\ tmp' = [tmp EXCEPT ![t] = odo.counter_ms]
    /\ Goto(t, "q_ms_store")
    /\ UNCHANGED <<regs, odo, jiffies, out, buf, ret, history>>
    /\ UNCHANGED <<picodo, board>>

\* odo->counter_ms++ : the store
CounterShow_ms_store(t) ==
    /\ pc[t] = "q_ms_store"
    /\ odo' = [odo EXCEPT !.counter_ms = WInc(tmp[t])]
    /\ tmp' = [tmp EXCEPT ![t] = Zero]
    /\ Goto(t, "q_clear")
    /\ UNCHANGED <<regs, jiffies, out, buf, ret, history>>
    /\ UNCHANGED <<picodo, board>>

\* a query that writes 0 to TSTAT
CounterShow_clear_zero(t) ==
    /\ pc[t] = "q_clear"
    /\ regs' = iowrite32(regs, TSTAT_REG, Zero)
    /\ Goto(t, "q_read_count")
    /\ UNCHANGED <<odo, jiffies, tmp, out, buf, ret, history>>
    /\ UNCHANGED <<picodo, board>>

\* iowrite32(TSTAT_COMP, TSTAT)
CounterShow_clear(t) ==
    /\ pc[t] = "q_clear"
    /\ regs' = iowrite32(regs, TSTAT_REG, W(TSTAT_COMP))
    /\ Goto(t, "q_read_count")
    /\ UNCHANGED <<odo, jiffies, tmp, out, buf, ret, history>>
    /\ UNCHANGED <<picodo, board>>

\* odo_read_count: the count register as it is now
odo_read_count == regs[TCN_REG]

\* odo->counter_ls = odo_read_count(), the local count of odo_read_count kept
\* in tmp
CounterShow_read_count(t) ==
    /\ pc[t] = "q_read_count"
    /\ tmp' = [tmp EXCEPT ![t] = odo_read_count]
    /\ odo' = [odo EXCEPT !.counter_ls = odo_read_count]
    /\ Goto(t, "q_counter_64")
    /\ UNCHANGED <<regs, jiffies, out, buf, ret, history>>
    /\ UNCHANGED <<picodo, board>>

\* counter_64 = ((u64)odo->counter_ms << 32) + odo->counter_ls
CounterShow_counter_64(t) ==
    /\ pc[t] = "q_counter_64"
    /\ out' = [out EXCEPT ![t] = <<odo.counter_ms, odo.counter_ls>>]
    /\ Goto(t, "q_nb_load")
    /\ UNCHANGED <<regs, odo, jiffies, tmp, buf, ret, history>>
    /\ UNCHANGED <<picodo, board>>

\* odo->nb_access++ : the load
CounterShow_nb_load(t) ==
    /\ pc[t] = "q_nb_load"
    /\ tmp' = [tmp EXCEPT ![t] = odo.nb_access]
    /\ Goto(t, "q_nb_store")
    /\ UNCHANGED <<regs, odo, jiffies, out, buf, ret, history>>
    /\ UNCHANGED <<picodo, board>>

\* odo->nb_access++ : the store
CounterShow_nb_store(t) ==
    /\ pc[t] = "q_nb_store"
    /\ odo' = [odo EXCEPT !.nb_access = WInc(tmp[t])]
    /\ tmp' = [tmp EXCEPT ![t] = Zero]
    /\ Goto(t, "q_last")
    /\ UNCHANGED <<regs, jiffies, out, buf, ret, history>>
    /\ UNCHANGED <<picodo, board>>

\* odo->last_access = jiffies
CounterShow_last(t) ==
    /\ pc[t] = "q_last"
    /\ odo' = [odo EXCEPT !.last_access = jiffies]
    /\ epoch_first' = IF epoch_first = <<>> THEN <<jiffies, jiffies>>
                                          ELSE <<epoch_first[1], jiffies>>
    /\ Goto(t, "q_first_test")
    /\ UNCHANGED <<regs, jiffies, tmp, out, buf, ret, calls_left, wraps, comp_sets, reset_seen,
                   first_query, last_ret, qdone>>
    /\ UNCHANGED <<picodo, board>>

\* if (odo->first_access == 0)
FirstAccessUnset(first_access) == first_access = Zero

CounterShow_first_test(t) ==
    /\ pc[t] = "q_first_test"
    /\ Goto(t, IF FirstAccessUnset(odo.first_access) THEN "q_first_set" ELSE "q_ret")
    /\ UNCHANGED <<regs, odo, jiffies, tmp, out, buf, ret, history>>
    /\ UNCHANGED <<picodo, board>>

\* odo->first_access = odo->last_access
CounterShow_first_set(t) ==
    /\ pc[t] = "q_first_set"
    /\ odo' = [odo EXCEPT !.first_access = odo.last_access]
    /\ Goto(t, "q_ret")
    /\ UNCHANGED <<regs, jiffies, tmp, out, buf, ret, history>>
    /\ UNCHANGED <<picodo, board>>

\* return snprintf(buf, PAGE_SIZE, "%llu\n", counter_64)
CounterShow_return(t) ==
    /\ pc[t] = "q_ret"
    /\ Goto(t, "idle")
    /\ out' = [out EXCEPT ![t] = <<Zero, Zero>>]
    /\ last_ret' = <<out[t]>>
    /\ qdone' = qdone + 1
    /\ first_query' = IF first_query = t THEN "none" ELSE first_query
    /\ UNCHANGED <<regs, odo, jiffies, tmp, buf, ret, calls_left, wraps, comp_sets, reset_seen,
                   epoch_first>>
    /\ UNCHANGED <<picodo, board>>

(* ------------------------------------------------------------------ *)
(* nb_access_show and mean_period_show (odo.c 167-186)                 *)
(* ------------------------------------------------------------------ *)

\* return snprintf(buf, PAGE_SIZE, "%lu\n", odo->nb_access)
NbAccessShow(t) ==
    /\ pc[t] = "idle"
    /\ calls_left > 0
    /\ out' = [out EXCEPT ![t] = <<Zero, odo.nb_access>>]
    /\ Goto(t, "n_ret")
    /\ calls_left' = calls_left - 1
    /\ UNCHANGED <<regs, odo, jiffies, tmp, buf, ret, wraps, comp_sets, reset_seen,
                   first_query, last_ret, epoch_first, qdone>>
    /\ UNCHANGED <<picodo, board>>

\* a / b on unsigned long, for the divisors nb_access takes (below 2^15)
WDiv(a, b) == WDivSmall(a, b[2])

\* period = diff * 1000 / HZ / nb_access on unsigned long, 0 when nb_access <= 0
mean_period(diff, nb_access) ==
    IF nb_access = Zero THEN Zero
    ELSE WDiv(WDivSmall(WMulSmall(diff, 1000), HZ), nb_access)

\* unsigned long diff = odo->last_access - odo->first_access
MeanPeriodShow_diff(t) ==
    /\ pc[t] = "idle"
    /\ calls_left > 0
    /\ tmp' = [tmp EXCEPT ![t] = WSub(odo.last_access, odo.first_access)]
    /\ Goto(t, "m_period")
    /\ calls_left' = calls_left - 1
    /\ UNCHANGED <<regs, odo, jiffies, out, buf, ret, wraps, comp_sets, reset_seen,
                   first_query, last_ret, epoch_first, qdone>>
    /\ UNCHANGED <<picodo, board>>

\* the test of nb_access and the division
MeanPeriodShow_period(t) ==
    /\ pc[t] = "m_period"
    /\ out' = [out EXCEPT ![t] = <<Zero, mean_period(tmp[t], odo.nb_access)>>]
    /\ tmp' = [tmp EXCEPT ![t] = Zero]
    /\ Goto(t, "m_ret")
    /\ UNCHANGED <<regs, odo, jiffies, buf, ret, history>>
    /\ UNCHANGED <<picodo, board>>

(* ------------------------------------------------------------------ *)
(* reset_store and odo_reset_count (odo.c 121-135, 188-207)            *)
(* ------------------------------------------------------------------ *)

\* a test that lets a failed parse through
ParseFailed_positive(r) == r > 0

\* if (ret < 0) return ret;
ParseFailed(r) == r < 0

\* a test that accepts every integer but 0
IsResetRequest_nonzero(reset) == reset # 0

\* (reset == 1) || (reset == '1')
IsResetRequest(reset) == reset = 1 \/ reset = 49

\* The int the local reset holds after kstrtoint returned k.
ResetLocal(k) == IF k.ret = 0 THEN {k.val} ELSE UninitInt

\* kstrtoint, the two tests, and for an accepted write the first statement of
\* odo_reset_count: odo->counter_ms = 0
ResetStore_parse(t, b) ==
    /\ pc[t] = "idle"
    /\ calls_left > 0
    /\ calls_left' = calls_left - 1
    /\ buf' = [buf EXCEPT ![t] = b]
    /\ LET k == kstrtoint(b) IN
         IF ParseFailed(k.ret)
         THEN /\ ret' = [ret EXCEPT ![t] = k.ret]
              /\ Goto(t, "w_ret")
              /\ UNCHANGED <<odo, reset_seen, first_query, last_ret, epoch_first, qdone>>
         ELSE \E reset \in ResetLocal(k) :
                IF IsResetRequest(reset)
                THEN /\ odo' = [odo EXCEPT !.counter_ms = Zero]
                     /\ Goto(t, "r_counter_ls")
                     /\ reset_seen' = TRUE
                     /\ first_query' = "resetting"
                     /\ last_ret' = <<>>
                     /\ epoch_first' = <<>>
                     /\ qdone' = 0
                     /\ UNCHANGED ret
                ELSE /\ ret' = [ret EXCEPT ![t] = Len(b)]
                     /\ Goto(t, "w_ret")
                     /\ UNCHANGED <<odo, reset_seen, first_query, last_ret, epoch_first, qdone>>
    /\ UNCHANGED <<regs, jiffies, tmp, out, wraps, comp_sets>>
    /\ UNCHANGED <<picodo, board>>

\* odo->counter_ls = 0
ResetCount_counter_ls(t) ==
    /\ pc[t] = "r_counter_ls"
    /\ odo' = [odo EXCEPT !.counter_ls = Zero]
    /\ Goto(t, "r_disable_read")
    /\ UNCHANGED <<regs, jiffies, tmp, out, buf, ret, history>>
    /\ UNCHANGED <<picodo, board>>

\* odo_set_gpt_field(TCTL_REG, TCTL_TEN, 0x0): v = ioread32
ResetCount_disable_read(t) ==
    /\ pc[t] = "r_disable_read"
    /\ tmp' = [tmp EXCEPT ![t] = regs[TCTL_REG]]
    /\ Goto(t, "r_disable_write")
    /\ UNCHANGED <<regs, odo, jiffies, out, buf, ret, history>>
    /\ UNCHANGED <<picodo, board>>

\* odo_set_gpt_field(TCTL_REG, TCTL_TEN, 0x0): iowrite32, then msleep(10)
ResetCount_disable_write(t) ==
    /\ pc[t] = "r_disable_write"
    /\ regs' = iowrite32(regs, TCTL_REG,
                         gpt_field_value(tmp[t], TCTL_TEN[1], TCTL_TEN[2], Zero))
    /\ tmp' = [tmp EXCEPT ![t] = Zero]
    /\ Goto(t, "r_msleep")
    /\ UNCHANGED <<odo, jiffies, out, buf, ret, history>>
    /\ UNCHANGED <<picodo, board>>

\* the end of msleep(10), and odo_set_gpt_field(TCTL_REG, TCTL_TEN, 0x1): v = ioread32
ResetCount_enable_read(t) ==
    /\ pc[t] = "r_msleep"
    /\ tmp' = [tmp EXCEPT ![t] = regs[TCTL_REG]]
    /\ Goto(t, "r_enable_write")
    /\ UNCHANGED <<regs, odo, jiffies, out, buf, ret, history>>
    /\ UNCHANGED <<picodo, board>>

\* a second write that leaves the timer disabled
ResetCount_enable_write_off(t) ==
    /\ pc[t] = "r_enable_write"
    /\ regs' = iowrite32(regs, TCTL_REG,
                         gpt_field_value(tmp[t], TCTL_TEN[1], TCTL_TEN[2], Zero))
    /\ tmp' = [tmp EXCEPT ![t] = Zero]
    /\ Goto(t, "r_nb_access")
    /\ UNCHANGED <<odo, jiffies, out, buf, ret, history>>
    /\ UNCHANGED <<picodo, board>>

\* a write that pushes the enable bit alone
ResetCount_enable_write_clobber(t) ==
    /\ pc[t] = "r_enable_write"
    /\ regs' = iowrite32(regs, TCTL_REG, One)
    /\ tmp' = [tmp EXCEPT ![t] = Zero]
    /\ Goto(t, "r_nb_access")
    /\ UNCHANGED <<odo, jiffies, out, buf, ret, history>>
    /\ UNCHANGED <<picodo, board>>

\* odo_set_gpt_field(TCTL_REG, TCTL_TEN, 0x1): iowrite32
ResetCount_enable_write(t) ==
    /\ pc[t] = "r_enable_write"
    /\ regs' = iowrite32(regs, TCTL_REG,
                         gpt_field_value(tmp[t], TCTL_TEN[1], TCTL_TEN[2], One))
    /\ tmp' = [tmp EXCEPT ![t] = Zero]
    /\ Goto(t, "r_nb_access")
    /\ UNCHANGED <<odo, jiffies, out, buf, ret, history>>
    /\ UNCHANGED <<picodo, board>>

\* odo->nb_access = 0
ResetStore_nb_access(t) ==
    /\ pc[t] = "r_nb_access"
    /\ odo' = [odo EXCEPT !.nb_access = Zero]
    /\ Goto(t, "r_first_access")
    /\ UNCHANGED <<regs, jiffies, tmp, out, buf, ret, history>>
    /\ UNCHANGED <<picodo, board>>

\* odo->first_access = 0
ResetStore_first_access(t) ==
    /\ pc[t] = "r_first_access"
    /\ odo' = [odo EXCEPT !.first_access = Zero]
    /\ Goto(t, "r_last_access")
    /\ UNCHANGED <<regs, jiffies, tmp, out, buf, ret, history>>
    /\ UNCHANGED <<picodo, board>>

\* odo->last_access = 0, and count is the value to return
ResetStore_last_access(t) ==
    /\ pc[t] = "r_last_access"
    /\ odo' = [odo EXCEPT !.last_access = Zero]
    /\ ret' = [ret EXCEPT ![t] = Len(buf[t])]
    /\ Goto(t, "r_ret")
    /\ UNCHANGED <<regs, jiffies, tmp, out, buf, history>>
    /\ UNCHANGED <<picodo, board>>

\* return count, after a reset
ResetStore_return(t) ==
    /\ pc[t] = "r_ret"
    /\ Goto(t, "idle")
    /\ buf' = [buf EXCEPT ![t] = <<>>]
    /\ ret' = [ret EXCEPT ![t] = 0]
    /\ first_query' = IF first_query = "resetting" THEN "armed" ELSE first_query
    /\ last_ret' = <<>>
    /\ epoch_first' = <<>>
    /\ qdone' = 0
    /\ UNCHANGED <<regs, odo, jiffies, tmp, out, calls_left, wraps, comp_sets, reset_seen>>
    /\ UNCHANGED <<picodo, board>>

\* the return of a handler that reset nothing
Return(t) ==
    /\ pc[t] \in {"n_ret", "m_ret", "w_ret"}
    /\ Goto(t, "idle")
    /\ out' = [out EXCEPT ![t] = <<Zero, Zero>>]
    /\ buf' = [buf EXCEPT ![t] = <<>>]
    /\ ret' = [ret EXCEPT ![t] = 0]
    /\ UNCHANGED <<regs, odo, jiffies, tmp, history>>
    /\ UNCHANGED <<picodo, board>>

(* ------------------------------------------------------------------ *)
(* odo_timer_setup run write by write (odo.c 90-110)                   *)
(* ------------------------------------------------------------------ *)

\* What TCTL, TPRER and TCMP may hold when odo_init maps the timer: 0, all
\* ones, 0x0000A5A5 and 0xFFFF5A5A.
SetupRegValues == {Zero, WordMax, <<0, 42405>>, <<65535, 23130>>}

\* the same calls with counting started before the compare value is set
SetupWrites_enable_early ==
    << <<TCTL_REG, TCTL_TEN, Zero>>,
       <<TCTL_REG, TCTL_CC, One>>,
       <<TCTL_REG, TCTL_CLKSOURCE, W(3)>>,
       <<TPRER_REG, TPRER_PRESCALER, Zero>>,
       <<TCTL_REG, TCTL_COMP_EN, One>>,
       <<TCTL_REG, TCTL_FRR, Zero>>,
       <<TCTL_REG, TCTL_TEN, One>>,
       <<TCMP_REG, TCMP_CMP, WordMax>> >>

\* The calls of odo_set_gpt_field in odo_timer_setup: register, field, value.
SetupWrites ==
    << <<TCTL_REG, TCTL_TEN, Zero>>,
       <<TCTL_REG, TCTL_CC, One>>,
       <<TCTL_REG, TCTL_CLKSOURCE, W(3)>>,
       <<TPRER_REG, TPRER_PRESCALER, Zero>>,
       <<TCTL_REG, TCTL_COMP_EN, One>>,
       <<TCTL_REG, TCTL_FRR, Zero>>,
       <<TCMP_REG, TCMP_CMP, WordMax>>,
       <<TCTL_REG, TCTL_TEN, One>> >>

\* The statement odo_timer_setup is at: before its i-th call, or returned.
SetupLabel ==
    <<"s_ten_off", "s_cc", "s_clksource", "s_prescaler", "s_comp_en", "s_frr", "s_cmp",
      "s_ten_on", "s_return">>

\* odo_init up to its call of odo_timer_setup: struct _odo zeroed, the timer
\* block as it was left, no attribute created yet.
InitSetup ==
    /\ \E tctl, tprer, tcmp \in SetupRegValues :
         regs = [reg \in Regs |-> IF reg = TCTL_REG THEN tctl
                                  ELSE IF reg = TPRER_REG THEN tprer
                                  ELSE IF reg = TCMP_REG THEN tcmp
                                  ELSE Zero]
    /\ odo = [counter_ms |-> Zero, counter_ls |-> Zero, nb_access |-> Zero,
              first_access |-> Zero, last_access |-> Zero]
    /\ jiffies = JiffiesSeq[1]
    /\ pc = [t \in Threads |-> IF t \in SeqThreads THEN SetupLabel[1] ELSE "idle"]
    /\ tmp = [t \in Threads |-> Zero]
    /\ out = [t \in Threads |-> <<Zero, Zero>>]
    /\ buf = [t \in Threads |-> <<>>]
    /\ ret = [t \in Threads |-> 0]
    /\ calls_left = 0
    /\ wraps = 0
    /\ comp_sets = 0
    /\ reset_seen = FALSE
    /\ first_query = "none"
    /\ last_ret = <<>>
    /\ epoch_first = <<>>
    /\ qdone = 0
    /\ chip = ChipInit
    /\ pic = PicInit
    /\ snap = [t \in Threads |-> [chip |-> ChipInit, resets |-> 0]]
    /\ BoardInit

\* The i-th call of odo_set_gpt_field in odo_timer_setup; nothing else runs
\* while odo_init does.
TimerSetup_write(t, i) ==
    /\ pc[t] = SetupLabel[i]
    /\ regs' = odo_set_gpt_field(regs, SetupWrites[i][1], SetupWrites[i][2], SetupWrites[i][3])
    /\ Goto(t, SetupLabel[i + 1])
    /\ UNCHANGED <<odo, jiffies, tmp, out, buf, ret, history>>
    /\ UNCHANGED <<picodo, board>>

NextSetup == \E t \in SeqThreads : \E i \in 1 .. Len(SetupWrites) : TimerSetup_write(t, i)

\* odo_timer_setup on a timer block found in any of the states above.
SpecSetup == InitSetup /\ [][NextSetup]_vars

(* ------------------------------------------------------------------ *)
(* picodo.c: the counter read over I2C from a PIC                      *)
(* ------------------------------------------------------------------ *)

\* Handler calls of one run of the I2C-backed module.
MaxPicCalls == 2

\* Counts the PIC is observed at: 0, 0x00000201 and 0x00010002.
PicValues == {Zero, <<0, 513>>, <<1, 2>>}

\* What i2c_smbus_read_byte_data returns when the transfer fails.
I2cErrors == {-5, -6}

\* The strings written to the reset attribute of picodo.
PicWriteInputs == {<<"1">>, <<"0">>, <<"a", "b", "c">>}

\* The register byte at reg + byte of a 32-bit count, least significant first.
ByteOf(w, byte) ==
    IF byte = 0 THEN w[2] % 256
    ELSE IF byte = 1 THEN w[2] \div 256
    ELSE IF byte = 2 THEN w[1] % 256
    ELSE w[1] \div 256

\* a + b modulo 2^32
WAdd(a, b) ==
    LET lo == a[2] + b[2]
    IN  <<(a[1] + b[1] + (lo \div Limb)) % Limb, lo % Limb>>

\* Pulses counted by the PIC while its reset line is released.
PicPulse ==
    /\ pic.gpio = "in"
    /\ \E c \in PicValues :
         /\ WLess(pic.count, c)
         /\ pic' = [pic EXCEPT !.count = c]
    /\ UNCHANGED <<chip, snap, jiffies, locals, calls_left, odometer, board>>

\* counter_show is called: int byte = 0, v = 0 of picodo_read_reg
PicCounterShow_call(t) ==
    /\ pc[t] = "idle"
    /\ calls_left > 0
    /\ calls_left' = calls_left - 1
    /\ tmp' = [tmp EXCEPT ![t] = Zero]
    /\ snap' = [snap EXCEPT ![t] = [chip |-> chip, resets |-> pic.resets]]
    /\ Goto(t, "pq_byte0")
    /\ UNCHANGED <<chip, pic, jiffies, out, buf, ret, odometer, board>>

ByteLabel == <<"pq_byte0", "pq_byte1", "pq_byte2", "pq_byte3", "pq_storage">>

\* One turn of the loop of picodo_read_reg: ret = i2c_smbus_read_byte_data(reg +
\* byte); if (ret < 0) return ret; v += ret << (byte * 8). In counter_show a
\* negative return goes on to picodo_reset.
picodo_read_reg(t, byte) ==
    /\ pc[t] = ByteLabel[byte + 1]
    /\ \E r \in I2cErrors \cup {ByteOf(pic.count, byte)} :
         IF r < 0
         THEN /\ ret' = [ret EXCEPT ![t] = r]
              /\ tmp' = [tmp EXCEPT ![t] = Zero]
              /\ Goto(t, "pq_gpio_out")
         ELSE /\ ret' = [ret EXCEPT ![t] = r]
              /\ tmp' = [tmp EXCEPT ![t] = WAdd(@, WShl(W(r), byte * 8))]
              /\ Goto(t, ByteLabel[byte + 2])
    /\ UNCHANGED <<chip, pic, snap, jiffies, out, buf, calls_left, odometer, board>>

\* *storage = v, with storage = &chip->counter
PicCounterShow_storage(t) ==
    /\ pc[t] = "pq_storage"
    /\ chip' = [chip EXCEPT !.counter = tmp[t]]
    /\ tmp' = [tmp EXCEPT ![t] = Zero]
    /\ Goto(t, "pq_nb_load")
    /\ UNCHANGED <<pic, snap, jiffies, out, buf, ret, calls_left, odometer, board>>

\* chip->nb_access++ : the load
PicCounterShow_nb_load(t) ==
    /\ pc[t] = "pq_nb_load"
    /\ tmp' = [tmp EXCEPT ![t] = W(chip.nb_access)]
    /\ Goto(t, "pq_nb_store")
    /\ UNCHANGED <<chip, pic, snap, jiffies, out, buf, ret, calls_left, odometer, board>>

\* chip->nb_access++ : the store
PicCounterShow_nb_store(t) ==
    /\ pc[t] = "pq_nb_store"
    /\ chip' = [chip EXCEPT !.nb_access = tmp[t][2] + 1]
    /\ tmp' = [tmp EXCEPT ![t] = Zero]
    /\ Goto(t, "pq_last")
    /\ UNCHANGED <<pic, snap, jiffies, out, buf, ret, calls_left, odometer, board>>

\* chip->last_access = jiffies
PicCounterShow_last(t) ==
    /\ pc[t] = "pq_last"
    /\ chip' = [chip EXCEPT !.last_access = jiffies]
    /\ Goto(t, "pq_first_test")
    /\ UNCHANGED <<pic, snap, jiffies, tmp, out, buf, ret, calls_left, odometer, board>>

\* if (chip->first_access == 0)
PicCounterShow_first_test(t) ==
    /\ pc[t] = "pq_first_test"
    /\ Goto(t, IF FirstAccessUnset(chip.first_access) THEN "pq_first_set" ELSE "pq_print")
    /\ UNCHANGED <<chip, pic, snap, jiffies, tmp, out, buf, ret, calls_left, odometer, board>>

\* chip->first_access = chip->last_access
PicCounterShow_first_set(t) ==
    /\ pc[t] = "pq_first_set"
    /\ chip' = [chip EXCEPT !.first_access = chip.last_access]
    /\ Goto(t, "pq_print")
    /\ UNCHANGED <<pic, snap, jiffies, tmp, out, buf, ret, calls_left, odometer, board>>

\* return snprintf(buf, PAGE_SIZE, "%d\n", chip->counter)
PicCounterShow_print(t) ==
    /\ pc[t] = "pq_print"
    /\ out' = [out EXCEPT ![t] = <<Zero, chip.counter>>]
    /\ ret' = [ret EXCEPT ![t] = 1]
    /\ Goto(t, "pq_ret")
    /\ UNCHANGED <<chip, pic, snap, jiffies, tmp, buf, calls_left, odometer, board>>

\* The statements of picodo_reset, for its call from counter_show ("q") and
\* from reset_store ("w"), and the statement its caller goes on with.
ResetLabel ==
    [q |-> [out |-> "pq_gpio_out", in |-> "pq_gpio_in", unlock |-> "pq_unlock",
            end |-> "pq_nb_zero"],
     w |-> [out |-> "pw_gpio_out", in |-> "pw_gpio_in", unlock |-> "pw_unlock",
            end |-> "pw_nb_access"]]

\* ret = gpio_direction_output(chip->gpio_reset, 0); if (ret < 0) goto end;
\* the line driven low holds the PIC in reset, its count cleared.
picodo_reset_output(t, c) ==
    /\ pc[t] = ResetLabel[c].out
    /\ \E ok \in BOOLEAN :
         IF ok
         THEN /\ pic' = [count |-> Zero, gpio |-> "low", resets |-> pic.resets + 1]
              /\ Goto(t, ResetLabel[c].in)
         ELSE /\ pic' = pic
              /\ Goto(t, ResetLabel[c].end)
    /\ UNCHANGED <<chip, snap, jiffies, tmp, out, buf, ret, calls_left, odometer, board>>

\* msleep(10); ret = gpio_direction_input(chip->gpio_reset)
picodo_reset_input(t, c) ==
    /\ pc[t] = ResetLabel[c].in
    /\ \E ok \in BOOLEAN : pic' = [pic EXCEPT !.gpio = IF ok THEN "in" ELSE @]
    /\ Goto(t, ResetLabel[c].unlock)
    /\ UNCHANGED <<chip, snap, jiffies, tmp, out, buf, ret, calls_left, odometer, board>>

\* msleep(10); i2c_smbus_read_byte_data(chip->client, REG_CNT), its result unused
picodo_reset_unlock(t, c) ==
    /\ pc[t] = ResetLabel[c].unlock
    /\ Goto(t, ResetLabel[c].end)
    /\ UNCHANGED <<chip, pic, snap, jiffies, tmp, out, buf, ret, calls_left, odometer, board>>

\* after picodo_reset in counter_show: chip->nb_access = 0; return ret
PicCounterShow_nb_zero(t) ==
    /\ pc[t] = "pq_nb_zero"
    /\ chip' = [chip EXCEPT !.nb_access = 0]
    /\ Goto(t, "pq_err_ret")
    /\ UNCHANGED <<pic, snap, jiffies, tmp, out, buf, ret, calls_left, odometer, board>>

\* counter_show returns to its caller
PicCounterShow_return(t) ==
    /\ pc[t] \in {"pq_ret", "pq_err_ret"}
    /\ Goto(t, "idle")
    /\ out' = [out EXCEPT ![t] = <<Zero, Zero>>]
    /\ ret' = [ret EXCEPT ![t] = 0]
    /\ UNCHANGED <<chip, pic, snap, jiffies, tmp, buf, calls_left, odometer, board>>

\* reset_store of picodo.c: kstrtoint and the two tests
PicResetStore_parse(t, b) ==
    /\ pc[t] = "idle"
    /\ calls_left > 0
    /\ calls_left' = calls_left - 1
    /\ buf' = [buf EXCEPT ![t] = b]
    /\ snap' = [snap EXCEPT ![t] = [chip |-> chip, resets |-> pic.resets]]
    /\ LET k == kstrtoint(b) IN
         IF ParseFailed(k.ret)
         THEN /\ ret' = [ret EXCEPT ![t] = k.ret]
              /\ Goto(t, "pw_ret")
         ELSE \E reset \in ResetLocal(k) :
                /\ ret' = [ret EXCEPT ![t] = Len(b)]
                /\ Goto(t, IF IsResetRequest(reset) THEN "pw_gpio_out" ELSE "pw_ret")
    /\ UNCHANGED <<chip, pic, jiffies, tmp, out, odometer, board>>

\* chip->nb_access = 0
PicResetStore_nb_access(t) ==
    /\ pc[t] = "pw_nb_access"
    /\ chip' = [chip EXCEPT !.nb_access = 0]
    /\ Goto(t, "pw_first_access")
    /\ UNCHANGED <<pic, snap, jiffies, tmp, out, buf, ret, calls_left, odometer, board>>

\* chip->first_access = 0
PicResetStore_first_access(t) ==
    /\ pc[t] = "pw_first_access"
    /\ chip' = [chip EXCEPT !.first_access = Zero]
    /\ Goto(t, "pw_last_access")
    /\ UNCHANGED <<pic, snap, jiffies, tmp, out, buf, ret, calls_left, odometer, board>>

\* chip->last_access = 0
PicResetStore_last_access(t) ==
    /\ pc[t] = "pw_last_access"
    /\ chip' = [chip EXCEPT !.last_access = Zero]
    /\ Goto(t, "pw_ret")
    /\ UNCHANGED <<pic, snap, jiffies, tmp, out, buf, ret, calls_left, odometer, board>>

\* return count, or the error of kstrtoint
PicResetStore_return(t) ==
    /\ pc[t] = "pw_ret"
    /\ Goto(t, "idle")
    /\ buf' = [buf EXCEPT ![t] = <<>>]
    /\ ret' = [ret EXCEPT ![t] = 0]
    /\ UNCHANGED <<chip, pic, snap, jiffies, tmp, out, calls_left, odometer, board>>

PicStep(t) ==
    \/ PicCounterShow_call(t)
    \/ \E byte \in 0 .. 3 : picodo_read_reg(t, byte)
    \/ PicCounterShow_storage(t)
    \/ PicCounterShow_nb_load(t)
    \/ PicCounterShow_nb_store(t)
    \/ PicCounterShow_last(t)
    \/ PicCounterShow_first_test(t)
    \/ PicCounterShow_first_set(t)
    \/ PicCounterShow_print(t)
    \/ \E c \in {"q", "w"} : picodo_reset_output(t, c)
    \/ \E c \in {"q", "w"} : picodo_reset_input(t, c)
    \/ \E c \in {"q", "w"} : picodo_reset_unlock(t, c)
    \/ PicCounterShow_nb_zero(t)
    \/ PicCounterShow_return(t)
    \/ \E b \in PicWriteInputs : PicResetStore_parse(t, b)
    \/ PicResetStore_nb_access(t)
    \/ PicResetStore_first_access(t)
    \/ PicResetStore_last_access(t)
    \/ PicResetStore_return(t)

\* The I2C-backed module after picodo_probe.
InitPic == InitWith(MaxPicCalls)

NextPic == PicPulse \/ Tick \/ \E t \in Threads : PicStep(t)

\* picodo.c, any number of callers at once.
SpecPic == InitPic /\ [][NextPic]_vars

NextPicSeq == PicPulse \/ Tick \/ \E t \in SeqThreads : PicStep(t)

\* picodo.c, one caller at a time.
SpecPicSeq == InitPic /\ [][NextPicSeq]_vars

(* ------------------------------------------------------------------ *)
(* Specifications                                                      *)
(* ------------------------------------------------------------------ *)

\* the statements of counter_show
QueryStep(t) ==
    \/ CounterShow_status(t)
    \/ CounterShow_ms_load(t)
    \/ CounterShow_ms_store(t)
    \/ CounterShow_clear(t)
    \/ CounterShow_read_count(t)
    \/ CounterShow_counter_64(t)
    \/ CounterShow_nb_load(t)
    \/ CounterShow_nb_store(t)
    \/ CounterShow_last(t)
    \/ CounterShow_first_test(t)
    \/ CounterShow_first_set(t)
    \/ CounterShow_return(t)

Step(t) ==
    \/ QueryStep(t)
    \/ NbAccessShow(t)
    \/ MeanPeriodShow_diff(t)
    \/ MeanPeriodShow_period(t)
    \/ \E b \in WriteInputs : ResetStore_parse(t, b)
    \/ ResetCount_counter_ls(t)
    \/ ResetCount_disable_read(t)
    \/ ResetCount_disable_write(t)
    \/ ResetCount_enable_read(t)
    \/ ResetCount_enable_write(t)
    \/ ResetStore_nb_access(t)
    \/ ResetStore_first_access(t)
    \/ ResetStore_last_access(t)
    \/ ResetStore_return(t)
    \/ Return(t)

Next == PulseCount \/ PulseWrap \/ Tick \/ \E t \in Threads : Step(t)

\* Any number of callers at once, as sysfs allows.
Spec == Init /\ [][Next]_vars

NextSeq == PulseCount \/ PulseWrap \/ Tick \/ \E t \in SeqThreads : Step(t)

\* One caller at a time: each handler returns before the next is called.
SpecSeq == InitSeq /\ [][NextSeq]_vars

\* Reads of the counter attribute alone, over more calls and wraps.
MaxRaceCalls == 3

MaxRaceWraps == 2

InitQueries == InitWith(MaxRaceCalls) /\ jiffies = JiffiesSeq[2]

NextQueries == PulseCount \/ PulseWrapUpTo(MaxRaceWraps) \/ \E t \in Threads : QueryStep(t)

\* Callers that only read the counter attribute, any number at once.
SpecQueries == InitQueries /\ [][NextQueries]_vars

\* the statements of reset_store for an accepted write of "1"
ResetStep(t) ==
    \/ ResetStore_parse(t, <<"1">>)
    \/ ResetCount_counter_ls(t)
    \/ ResetCount_disable_read(t)
    \/ ResetCount_disable_write(t)
    \/ ResetCount_enable_read(t)
    \/ ResetCount_enable_write(t)
    \/ ResetStore_nb_access(t)
    \/ ResetStore_first_access(t)
    \/ ResetStore_last_access(t)
    \/ ResetStore_return(t)

\* the two statements of odo_reset_count that write TCTL
WriteStep(t) == ResetCount_disable_write(t) \/ ResetCount_enable_write(t)

\* the statements at which WriteStep is enabled
WriteLabels == {"r_disable_write", "r_enable_write"}

\* a handler that was called goes on: no statement of counter_show or
\* reset_store waits for another thread, and msleep(10) returns
Running(t) ==
    /\ pc[t] \notin WriteLabels \cup {"idle"}
    /\ (QueryStep(t) \/ ResetStep(t))

\* WF_vars(WriteStep(t)) written on its enabling condition: WriteStep(t) is
\* enabled exactly at WriteLabels and every step of it leaves them
WriteFair(t) == []<>(pc[t] \notin WriteLabels)

InitFair == InitWith(MaxConcCalls) /\ jiffies = JiffiesSeq[2]

NextFair ==
    PulseCount \/ PulseWrap \/ \E t \in Threads : (QueryStep(t) \/ ResetStep(t))

\* Reads of counter and writes of "1" to reset at once, every called handler
\* scheduled again and again until it returns.
SpecFair ==
    InitFair /\ [][NextFair]_vars /\ \A t \in Threads : (WF_vars(Running(t)) /\ WriteFair(t))

(* ------------------------------------------------------------------ *)
(* odo_init and odo_exit: gpt_id and the tables (odo.c 36-39, 229-319) *)
(* ------------------------------------------------------------------ *)

\* int offset[] = MEM_GPT_OFFSET, indexed from 0 in the code: 0x3000, 0x4000,
\* 0x5000, 0x19000, 0x1A000, 0x1F000
MEM_GPT_OFFSET == <<12288, 16384, 20480, 102400, 106496, 126976>>

\* int gpio[] = GPT_TIN, indexed from 0 in the code
GPT_TIN == <<79, 79, 79, 91, 89, 78>>

\* The largest value given to the gpt_id parameter and to odo,timer.
MaxGptId == 8

\* Values of the module parameter gpt_id, an int anyone loading the module sets.
GptIdValues == (-1) .. MaxGptId

\* /odo@0 of the device tree: <<>> when absent, or <<the value of odo,timer>>.
NodeValues == {<<>>} \cup {<<g>> : g \in GptIdValues}

\* What table[index] reads in C: the element, or whatever lies beside the
\* array when the index is outside it.
TableRead(table, index) ==
    IF index \in 0 .. (Len(table) - 1) THEN {table[index + 1]} ELSE UninitInt

\* modinit after a read of table[index], kept in the order the reads are made
Indexed(name, table, index, value) ==
    [modinit EXCEPT !.used = Append(@, [table |-> name, len |-> Len(table), index |-> index,
                                         value |-> value, validated |-> modinit.validated])]

\* node = of_find_node_by_path("/odo@0"); with a node,
\* gpt_id = be32_to_cpup(of_get_property(node, "odo,timer", NULL))
OdoInit_find_node ==
    /\ modinit.pc = "find_node"
    /\ modinit' = IF modinit.node = <<>>
                  THEN [modinit EXCEPT !.pc = "pr_err"]
                  ELSE [modinit EXCEPT !.gpt_id = modinit.node[1], !.pc = "gpt_base"]
    /\ UNCHANGED <<regs, odo, jiffies, locals, history, picodo, watchdog>>

\* pr_err("odo: No node in DT, using timer %d (GPIO %d)\n", gpt_id, gpio[gpt_id])
OdoInit_pr_err ==
    /\ modinit.pc = "pr_err"
    /\ \E v \in TableRead(GPT_TIN, modinit.gpt_id) :
         modinit' = [Indexed("gpio", GPT_TIN, modinit.gpt_id, v) EXCEPT !.pc = "range"]
    /\ UNCHANGED <<regs, odo, jiffies, locals, history, picodo, watchdog>>

\* if ((gpt_id < 2) || (gpt_id > 6)) return -EINVAL
OdoInit_range ==
    /\ modinit.pc = "range"
    /\ modinit' = IF (modinit.gpt_id < 2) \/ (modinit.gpt_id > 6)
                  THEN [modinit EXCEPT !.rc = -Errno.EINVAL, !.pc = "failed"]
                  ELSE [modinit EXCEPT !.validated = TRUE, !.pc = "gpt_base"]
    /\ UNCHANGED <<regs, odo, jiffies, locals, history, picodo, watchdog>>

\* odo = kzalloc(...); odo->gpt_base = MEM_BASE | offset[gpt_id - 1]; the
\* fields of odo set to 0
OdoInit_gpt_base ==
    /\ modinit.pc = "gpt_base"
    /\ \E v \in TableRead(MEM_GPT_OFFSET, modinit.gpt_id - 1) :
         modinit' = [Indexed("offset", MEM_GPT_OFFSET, modinit.gpt_id - 1, v)
                       EXCEPT !.pc = "gpio_request"]
    /\ odo' = [counter_ms |-> Zero, counter_ls |-> Zero, nb_access |-> Zero,
               first_access |-> Zero, last_access |-> Zero]
    /\ UNCHANGED <<regs, jiffies, locals, history, picodo, watchdog>>

\* rc = gpio_request_one(gpio[gpt_id], GPIOF_IN, ...); if (rc < 0) goto the
\* pr_err; else odo_timer_setup() and the sysfs group
OdoInit_gpio_request ==
    /\ modinit.pc = "gpio_request"
    /\ \E v \in TableRead(GPT_TIN, modinit.gpt_id), rc \in {0, -Errno.EINVAL} :
         /\ modinit' = [Indexed("gpio", GPT_TIN, modinit.gpt_id, v)
                          EXCEPT !.rc = rc, !.pc = IF rc < 0 THEN "request_failed" ELSE "loaded"]
         /\ regs' = IF rc < 0 THEN regs ELSE odo_timer_setup(regs)
    /\ UNCHANGED <<odo, jiffies, locals, history, picodo, watchdog>>

\* pr_err("Cannot use GPIO %d for odometer pulses\n", gpio[gpt_id]); goto unmap
OdoInit_request_failed ==
    /\ modinit.pc = "request_failed"
    /\ \E v \in TableRead(GPT_TIN, modinit.gpt_id) :
         modinit' = [Indexed("gpio", GPT_TIN, modinit.gpt_id, v) EXCEPT !.pc = "failed"]
    /\ UNCHANGED <<regs, odo, jiffies, locals, history, picodo, watchdog>>

\* odo_exit: gpio_free(gpio[gpt_id])
OdoExit ==
    /\ modinit.pc = "loaded"
    /\ \E v \in TableRead(GPT_TIN, modinit.gpt_id) :
         modinit' = [Indexed("gpio", GPT_TIN, modinit.gpt_id, v) EXCEPT !.pc = "unloaded"]
    /\ UNCHANGED <<regs, odo, jiffies, locals, history, picodo, watchdog>>

\* insmod: gpt_id holds the module parameter, the device tree has the node or
\* not, the timer block is as the hardware reset left it.
InitLoad ==
    /\ InitCore(0)
    /\ \E g \in GptIdValues, n \in NodeValues :
         modinit = [pc |-> "find_node", gpt_id |-> g, node |-> n, validated |-> FALSE,
                    rc |-> 0, used |-> <<>>]
    /\ WdInit(W(WdPeriod), 0, 0)

NextLoad ==
    \/ OdoInit_find_node
    \/ OdoInit_pr_err
    \/ OdoInit_range
    \/ OdoInit_gpt_base
    \/ OdoInit_gpio_request
    \/ OdoInit_request_failed
    \/ OdoExit

\* The module loaded by odo_init and removed by odo_exit.
SpecLoad == InitLoad /\ [][NextLoad]_vars

(* ------------------------------------------------------------------ *)
(* The watchdog module (thelma7_hw_wd.c)                                *)
(* ------------------------------------------------------------------ *)

\* Handler calls started in one run of the watchdog module.
MaxWdCalls == 3

\* The strings written to the trig attribute.
WdWriteInputs == { <<"1">>, <<"1", "\n">>, <<"4", "9">>, <<"0">>, <<"a">> }

\* The int a C conversion of the unsigned word w gives (two's complement).
ToInt(w) == ((IF w[1] >= Limb \div 2 THEN w[1] - Limb ELSE w[1]) * Limb) + w[2]

\* wd_remaining_time with now = jiffies / HZ already computed: unsigned int
\* remaining = period_s - (now - last_trig_s); return remaining > 0 ? remaining : 0
\* with the unsigned value converted to the int returned.
wd_remaining_time(w, now) ==
    LET remaining == WSub(w.period_s, WSub(now, w.last_trig_s))
    IN  IF remaining # Zero THEN ToInt(remaining) ELSE 0

\* The inhibit line changes level.
InhibChange ==
    /\ line' = [line EXCEPT !.inhib = 1 - @]
    /\ UNCHANGED <<regs, odo, jiffies, locals, history, picodo, modinit, wd, wl, latch>>

\* An edge of the watchdog clock; a stalled clock has none.
ClockEdge ==
    /\ line' = [line EXCEPT !.clock = 1 - @]
    /\ UNCHANGED <<regs, odo, jiffies, locals, history, picodo, modinit, wd, wl, latch>>

\* inhib_show: int inhibited = wd_has_inhib()
InhibShow_read(t) ==
    /\ pc[t] = "idle"
    /\ calls_left > 0
    /\ calls_left' = calls_left - 1
    /\ wl' = [wl EXCEPT ![t].inhibited = line.inhib]
    /\ Goto(t, "wi_store")
    /\ UNCHANGED <<regs, odo, jiffies, tmp, out, buf, ret, wraps, comp_sets, reset_seen,
                   first_query, last_ret, epoch_first, qdone, picodo, modinit, wd, line, latch>>

\* if (inhibited) wd->stopped = true
InhibShow_store(t) ==
    /\ pc[t] = "wi_store"
    /\ wd' = IF wl[t].inhibited # 0 THEN [wd EXCEPT !.stopped = TRUE] ELSE wd
    /\ Goto(t, "wi_ret")
    /\ UNCHANGED <<regs, odo, jiffies, tmp, out, buf, ret, history, picodo, modinit, line, wl,
                   latch>>

\* return snprintf(buf, PAGE_SIZE, "%d\n", inhibited)
InhibShow_return(t) ==
    /\ pc[t] = "wi_ret"
    /\ latch' = [latch EXCEPT !.seen = @ \/ (wl[t].inhibited # 0)]
    /\ wl' = [wl EXCEPT ![t] = WlInit]
    /\ Goto(t, "idle")
    /\ UNCHANGED <<regs, odo, jiffies, tmp, out, buf, ret, history, picodo, modinit, wd, line>>

\* clock_show calls wd_has_clock: clk[0] = gpio_get_value_cansleep(wd->gpio_clock)
ClockShow_call(t) ==
    /\ pc[t] = "idle"
    /\ calls_left > 0
    /\ calls_left' = calls_left - 1
    /\ wl' = [wl EXCEPT ![t].clk = <<line.clock>>]
    /\ Goto(t, "wc_clk1")
    /\ UNCHANGED <<regs, odo, jiffies, tmp, out, buf, ret, wraps, comp_sets, reset_seen,
                   first_query, last_ret, epoch_first, qdone, picodo, modinit, wd, line, latch>>

\* msleep(400); clk[1] = ..., then msleep(400); clk[2] = ...
ClockShow_sample(t) ==
    /\ pc[t] \in {"wc_clk1", "wc_clk2"}
    /\ wl' = [wl EXCEPT ![t].clk = Append(@, line.clock)]
    /\ Goto(t, IF pc[t] = "wc_clk1" THEN "wc_clk2" ELSE "wc_store")
    /\ UNCHANGED <<regs, odo, jiffies, tmp, out, buf, ret, history, picodo, modinit, wd, line,
                   latch>>

\* has_clk of wd_has_clock: (clk[0] != clk[1]) || (clk[1] != clk[2])
has_clk(clk) == (clk[1] # clk[2]) \/ (clk[2] # clk[3])

\* int clocking = wd_has_clock(); if (!clocking) wd->stopped = true
ClockShow_store(t) ==
    /\ pc[t] = "wc_store"
    /\ wd' = IF ~has_clk(wl[t].clk) THEN [wd EXCEPT !.stopped = TRUE] ELSE wd
    /\ Goto(t, "wc_ret")
    /\ UNCHANGED <<regs, odo, jiffies, tmp, out, buf, ret, history, picodo, modinit, line, wl,
                   latch>>

\* return snprintf(buf, PAGE_SIZE, "%d\n", clocking)
ClockShow_return(t) ==
    /\ pc[t] = "wc_ret"
    /\ latch' = [latch EXCEPT !.seen = @ \/ ~has_clk(wl[t].clk)]
    /\ wl' = [wl EXCEPT ![t] = WlInit]
    /\ Goto(t, "idle")
    /\ UNCHANGED <<regs, odo, jiffies, tmp, out, buf, ret, history, picodo, modinit, wd, line>>

\* remaining_time_show: int rest = wd_remaining_time(), with now = jiffies / HZ
RemainingShow_call(t) ==
    /\ pc[t] = "idle"
    /\ calls_left > 0
    /\ calls_left' = calls_left - 1
    /\ LET now == WDivSmall(jiffies, HZ)
       IN  wl' = [wl EXCEPT ![t].now = now, ![t].rest = wd_remaining_time(wd, now)]
    /\ latch' = [latch EXCEPT !.must[t] = latch.seen]
    /\ Goto(t, "wr_inhib")
    /\ UNCHANGED <<regs, odo, jiffies, tmp, out, buf, ret, wraps, comp_sets, reset_seen,
                   first_query, last_ret, epoch_first, qdone, picodo, modinit, wd, line>>

\* the call of wd_has_inhib() in remaining_time_show
RemainingShow_inhib(t) ==
    /\ pc[t] = "wr_inhib"
    /\ wl' = [wl EXCEPT ![t].inhibited = line.inhib]
    /\ Goto(t, "wr_store")
    /\ UNCHANGED <<regs, odo, jiffies, tmp, out, buf, ret, history, picodo, modinit, wd, line,
                   latch>>

\* if (wd_has_inhib()) wd->stopped = true
RemainingShow_store(t) ==
    /\ pc[t] = "wr_store"
    /\ wd' = IF wl[t].inhibited # 0 THEN [wd EXCEPT !.stopped = TRUE] ELSE wd
    /\ Goto(t, "wr_test")
    /\ UNCHANGED <<regs, odo, jiffies, tmp, out, buf, ret, history, picodo, modinit, line, wl,
                   latch>>

\* if (wd->stopped) rest = -1
RemainingShow_test(t) ==
    /\ pc[t] = "wr_test"
    /\ wl' = IF wd.stopped THEN [wl EXCEPT ![t].rest = -1] ELSE wl
    /\ Goto(t, "wr_ret")
    /\ UNCHANGED <<regs, odo, jiffies, tmp, out, buf, ret, history, picodo, modinit, wd, line,
                   latch>>

\* return snprintf(buf, PAGE_SIZE, "%d\n", rest)
RemainingShow_return(t) ==
    /\ pc[t] = "wr_ret"
    /\ latch' = [latch EXCEPT !.seen = @ \/ (wl[t].inhibited # 0), !.must[t] = FALSE]
    /\ wl' = [wl EXCEPT ![t] = WlInit]
    /\ Goto(t, "idle")
    /\ UNCHANGED <<regs, odo, jiffies, tmp, out, buf, ret, history, picodo, modinit, wd, line>>

\* trig_store: ret = kstrtoint(buf, 10, &reset); if (ret < 0) return ret; then
\* the test (reset == 1) || (reset == '1')
TrigStore_parse(t, b) ==
    /\ pc[t] = "idle"
    /\ calls_left > 0
    /\ calls_left' = calls_left - 1
    /\ buf' = [buf EXCEPT ![t] = b]
    /\ LET k == kstrtoint(b) IN
         IF ParseFailed(k.ret)
         THEN /\ ret' = [ret EXCEPT ![t] = k.ret]
              /\ Goto(t, "wt_ret")
         ELSE /\ ret' = [ret EXCEPT ![t] = Len(b)]
              /\ Goto(t, IF IsResetRequest(k.val) THEN "wt_clear" ELSE "wt_ret")
    /\ UNCHANGED <<regs, odo, jiffies, tmp, out, wraps, comp_sets, reset_seen,
                   first_query, last_ret, epoch_first, qdone, picodo, board>>

\* wd->stopped = false
TrigStore_clear(t) ==
    /\ pc[t] = "wt_clear"
    /\ wd' = [wd EXCEPT !.stopped = FALSE]
    /\ Goto(t, "wt_high")
    /\ UNCHANGED <<regs, odo, jiffies, tmp, out, buf, ret, history, picodo, modinit, line, wl,
                   latch>>

\* wd_trig: gpio_set_value_cansleep(wd->gpio_trig, 1); msleep(50)
wd_trig_high(t) ==
    /\ pc[t] = "wt_high"
    /\ line' = [line EXCEPT !.trig = 1]
    /\ Goto(t, "wt_low")
    /\ UNCHANGED <<regs, odo, jiffies, tmp, out, buf, ret, history, picodo, modinit, wd, wl,
                   latch>>

\* wd_trig: gpio_set_value_cansleep(wd->gpio_trig, 0)
wd_trig_low(t) ==
    /\ pc[t] = "wt_low"
    /\ line' = [line EXCEPT !.trig = 0]
    /\ Goto(t, "wt_last")
    /\ UNCHANGED <<regs, odo, jiffies, tmp, out, buf, ret, history, picodo, modinit, wd, wl,
                   latch>>

\* wd_trig: wd->last_trig_s = jiffies / HZ
wd_trig_last(t) ==
    /\ pc[t] = "wt_last"
    /\ wd' = [wd EXCEPT !.last_trig_s = WDivSmall(jiffies, HZ)]
    /\ Goto(t, "wt_ret")
    /\ UNCHANGED <<regs, odo, jiffies, tmp, out, buf, ret, history, picodo, modinit, line, wl,
                   latch>>

\* the write of b makes trig_store clear stopped and trigger the watchdog
TrigAccepted(b) ==
    LET k == kstrtoint(b) IN ~ParseFailed(k.ret) /\ IsResetRequest(k.val)

\* return count, or the error of kstrtoint
TrigStore_return(t) ==
    /\ pc[t] = "wt_ret"
    /\ latch' = IF TrigAccepted(buf[t]) THEN LatchInit ELSE latch
    /\ buf' = [buf EXCEPT ![t] = <<>>]
    /\ ret' = [ret EXCEPT ![t] = 0]
    /\ Goto(t, "idle")
    /\ UNCHANGED <<regs, odo, jiffies, tmp, out, history, picodo, modinit, wd, line, wl>>

WdStep(t) ==
    \/ InhibShow_read(t)
    \/ InhibShow_store(t)
    \/ InhibShow_return(t)
    \/ ClockShow_call(t)
    \/ ClockShow_sample(t)
    \/ ClockShow_store(t)
    \/ ClockShow_return(t)
    \/ RemainingShow_call(t)
    \/ RemainingShow_inhib(t)
    \/ RemainingShow_store(t)
    \/ RemainingShow_test(t)
    \/ RemainingShow_return(t)
    \/ \E b \in WdWriteInputs : TrigStore_parse(t, b)
    \/ TrigStore_clear(t)
    \/ wd_trig_high(t)
    \/ wd_trig_low(t)
    \/ wd_trig_last(t)
    \/ TrigStore_return(t)

\* The watchdog module after wd_init, the lines at either level.
InitWd ==
    /\ InitCore(MaxWdCalls)
    /\ modinit = ModInitDone
    /\ \E inhib, clock \in {0, 1} : WdInit(W(WdPeriod), inhib, clock)

NextWd == Tick \/ InhibChange \/ ClockEdge \/ \E t \in Threads : WdStep(t)

\* thelma7_hw_wd.c, any number of callers at once.
SpecWd == InitWd /\ [][NextWd]_vars

NextWdSeq == Tick \/ InhibChange \/ ClockEdge \/ \E t \in SeqThreads : WdStep(t)

\* thelma7_hw_wd.c, one caller at a time.
SpecWdSeq == InitWd /\ [][NextWdSeq]_vars

(* ------------------------------------------------------------------ *)
(* Properties                                                          *)
(* ------------------------------------------------------------------ *)

AllIdle == \A t \in Threads : pc[t] = "idle"

\* a <= b on 64-bit values <<high word, low word>>
U64Leq(a, b) == WLess(a[1], b[1]) \/ (a[1] = b[1] /\ WLeq(a[2], b[2]))

TimerCounting == Field(regs[TCTL_REG], TCTL_TEN) = One

(* C1: a query that follows another query with no reset in between, the     *)
(* hardware counter having wrapped at most once, returns a 64-bit value     *)
(* greater than or equal to the value the previous query returned.          *)
C1_QueryNonDecreasing ==
    \A t \in Threads :
        (pc[t] = "q_ret" /\ last_ret # <<>> /\ wraps <= 1)
            => U64Leq(last_ret[1], out[t])

(* C2: as long as no reset was started, the high word counts no more than   *)
(* the compare events of the hardware: one raising of the compare flag is   *)
(* never counted by two queries.                                            *)
C2_OverflowCountedOnce ==
    ~reset_seen => WLeq(odo.counter_ms, W(comp_sets))

(* C3: the first query called after a reset has returned, no compare event  *)
(* having happened since that reset was called, returns a value whose high  *)
(* 32 bits are 0.                                                           *)
C3_HighWordZeroAfterReset ==
    \A t \in Threads :
        (pc[t] = "q_ret" /\ first_query = t) => out[t][1] = Zero

(* C4: when an accepted write to the reset attribute returns, counter_ms,   *)
(* counter_ls, nb_access, first_access and last_access are 0 and the timer  *)
(* is enabled.                                                              *)
C4_ResetReturnsZeroedAndCounting ==
    \A t \in Threads :
        pc[t] = "r_ret" =>
            /\ odo.counter_ms = Zero
            /\ odo.counter_ls = Zero
            /\ odo.nb_access = Zero
            /\ odo.first_access = Zero
            /\ odo.last_access = Zero
            /\ TimerCounting

(* C5: a reset and a query never interleave in the middle of their updates: *)
(* whenever no call is in progress the telemetry is one a serial order of   *)
(* the calls produces, in which an access count of 0 (no query since        *)
(* creation or the last reset) goes with access times that are both 0.      *)
C5_ResetQuerySerial ==
    (AllIdle /\ odo.nb_access = Zero)
        => (odo.first_access = Zero /\ odo.last_access = Zero)

(* C6: once the first query of an epoch has returned, first_access is the   *)
(* clock value that query recorded, whatever queries followed it.           *)
C6_FirstAccessKept ==
    (AllIdle /\ epoch_first # <<>>) => odo.first_access = epoch_first[1]

(* C7: with no reset, once every query that was called has returned,        *)
(* nb_access is the number of queries.                                      *)
C7_AccessCountExact ==
    (~reset_seen /\ AllIdle) => odo.nb_access = W(qdone)

\* ((last_access - first_access) * 1000 / HZ) / nb_access in exact arithmetic
ExactMeanPeriod ==
    IF odo.nb_access = Zero THEN <<0, 0, 0>>
    ELSE XDivSmall(XDivSmall(XMulSmall(WSub(odo.last_access, odo.first_access), 1000),
                             HZ),
                   odo.nb_access[2])

(* C8: the value mean_period returns is 0 when nb_access is 0 and otherwise *)
(* the exact truncated quotient ((last_access - first_access) * 1000 / HZ)  *)
(* / nb_access.                                                             *)
C8_MeanPeriodExact ==
    \A t \in Threads :
        pc[t] = "m_ret" => XOfWord(out[t][2]) = ExactMeanPeriod

\* the writes that parse as an integer other than 1 and 49
NoopInputs == {<<"0">>, <<"2", "\n">>, <<"-", "1">>}

\* the writes kstrtoint rejects, and the error of each
BadInputs ==
    {<<>>, <<"\n">>, <<"a", "b", "c">>, <<"1", "x">>, <<"1", " ">>,
     <<"2", "1", "4", "7", "4", "8", "3", "6", "4", "8">>}

ParseError(b) == IF Len(b) = 10 THEN -Errno.ERANGE ELSE -Errno.EINVAL

\* thread t is called with a write of b in this step
WriteCalled(t, b) == pc[t] = "idle" /\ pc'[t] \in {"w_ret", "r_counter_ls"} /\ buf'[t] = b

\* thread t returns from a write that did not reset
WriteReturns(t) == pc[t] = "w_ret" /\ pc'[t] = "idle"

(* C9: a write whose content parses as an integer other than 1 and '1'      *)
(* returns its length (success) and leaves counter_ms, counter_ls,          *)
(* nb_access, first_access, last_access and the timer registers unchanged.  *)
C9_OtherIntegerIsNoop ==
    [][\A t \in SeqThreads :
          /\ \A b \in NoopInputs :
                WriteCalled(t, b) =>
                    /\ pc'[t] = "w_ret"
                    /\ ret'[t] = Len(b)
                    /\ odo' = odo
                    /\ regs' = regs
          /\ (WriteReturns(t) /\ buf[t] \in NoopInputs) =>
                (ret[t] = Len(buf[t]) /\ odo' = odo /\ regs' = regs)]_vars

\* a write of "0" is returning after queries have been counted
C9_NoopWriteSeen ==
    \E t \in SeqThreads :
        /\ pc[t] = "w_ret"
        /\ buf[t] \in NoopInputs
        /\ ret[t] = Len(buf[t])
        /\ odo.nb_access # Zero

(* C10: a write whose content is not a decimal integer of the range of int  *)
(* returns the error of the parse and leaves the counter, the telemetry and *)
(* the timer registers unchanged.                                           *)
C10_ParseErrorIsReturned ==
    [][\A t \in SeqThreads :
          /\ \A b \in BadInputs :
                WriteCalled(t, b) =>
                    /\ pc'[t] = "w_ret"
                    /\ ret'[t] = ParseError(b)
                    /\ odo' = odo
                    /\ regs' = regs
          /\ (WriteReturns(t) /\ buf[t] \in BadInputs) =>
                (ret[t] = ParseError(buf[t]) /\ odo' = odo /\ regs' = regs)]_vars

\* a rejected write is returning its error after queries have been counted
C10_RejectedWriteSeen ==
    \E t \in SeqThreads :
        /\ pc[t] = "w_ret"
        /\ buf[t] \in BadInputs
        /\ ret[t] < 0
        /\ odo.nb_access # Zero

(* C11: when a read of the counter of picodo returns the error of a failed  *)
(* I2C read, counter, nb_access, first_access and last_access are what they *)
(* were when the read was called and the PIC has not been reset.            *)
C11_FailedReadLeavesState ==
    \A t \in SeqThreads :
        pc[t] = "pq_err_ret" =>
            (ret[t] < 0 /\ chip = snap[t].chip /\ pic.resets = snap[t].resets)

\* thread t is between the first register access and the last telemetry
\* update of counter_show or reset_store of picodo.c
PicInSection(t) ==
    pc[t] \in {"pq_byte0", "pq_byte1", "pq_byte2", "pq_byte3", "pq_storage",
               "pq_nb_load", "pq_nb_store", "pq_last", "pq_first_test", "pq_first_set",
               "pq_gpio_out", "pq_gpio_in", "pq_unlock", "pq_nb_zero",
               "pw_gpio_out", "pw_gpio_in", "pw_unlock",
               "pw_nb_access", "pw_first_access", "pw_last_access"}

(* C12: no two callers of picodo are at the same time inside the register   *)
(* access and telemetry update of counter_show and reset_store.             *)
C12_PicodoMutualExclusion ==
    \A t, u \in Threads : (t # u /\ PicInSection(t)) => ~PicInSection(u)

(* C13: with no reset and at most one wrap, the value a query is about to   *)
(* return when it reads the count register is the number of pulses counted  *)
(* so far: the wraps of the hardware in the high word, the count in the low *)
(* word.                                                                    *)
C13_QueryReturnsPulseCount ==
    [][\A t \in SeqThreads :
          (pc[t] = "q_read_count" /\ pc'[t] = "q_counter_64" /\ ~reset_seen /\ wraps <= 1)
              => (odo'.counter_ms = W(wraps) /\ odo'.counter_ls = regs[TCN_REG])]_vars

\* the compare flag of TSTAT, 0 or 1
CompFlag(r) == WBit(r[TSTAT_REG], 0)

\* the statements of counter_show
QueryLabels ==
    {"q_ms_load", "q_ms_store", "q_clear", "q_read_count", "q_counter_64", "q_nb_load",
     "q_nb_store", "q_last", "q_first_test", "q_first_set", "q_ret"}

(* C14: with one caller and no reset, every raising of the compare flag is  *)
(* counted once: counter_ms is the number of raisings less the one still    *)
(* flagged, the flag being cleared right after the increment; a query that  *)
(* reads the flag as 0 goes straight to the count, and only the clearing    *)
(* statement of a query changes a register.                                 *)
C14_FlagCountedOnceAndCleared ==
    [][\A t \in SeqThreads :
          /\ ~reset_seen' =>
                odo'.counter_ms =
                    W(comp_sets' - (IF pc'[t] = "q_clear" THEN 0 ELSE CompFlag(regs')))
          /\ (pc[t] = "idle" /\ pc'[t] \in QueryLabels /\ CompFlag(regs) = 0)
                => (pc'[t] = "q_read_count" /\ odo' = odo /\ regs' = regs)
          /\ (pc[t] \in QueryLabels \ {"q_clear"} /\ pc'[t] # pc[t])
                => regs' = regs
          /\ (pc[t] \in QueryLabels \ {"q_ms_store"} /\ pc'[t] # pc[t])
                => odo'.counter_ms = odo.counter_ms
          /\ (pc[t] = "q_clear" /\ pc'[t] # pc[t])
                => (CompFlag(regs') = 0 /\ odo' = odo)]_vars

\* the second query has counted the one raising of the flag and cleared it
C14_FlagConsumed ==
    \E t \in SeqThreads :
        /\ pc[t] = "q_read_count"
        /\ ~reset_seen
        /\ qdone >= 1
        /\ comp_sets = 1
        /\ odo.counter_ms = One
        /\ CompFlag(regs) = 0

\* the bits of a field (position, size)
FieldBits(f) == {b \in Bits : b >= f[1] /\ b < f[1] + f[2]}

\* odo_timer_setup makes its i-th call in this step
SetupStep(t, i) == pc[t] = SetupLabel[i] /\ pc'[t] = SetupLabel[i + 1]

(* C15: each call of odo_set_gpt_field leaves the field equal to the value, *)
(* every other bit of the register as it was, and every other register      *)
(* untouched, the 32-bit compare field included.                            *)
C15_FieldWriteFrame ==
    [][\A t \in SeqThreads : \A i \in 1 .. 8 :
          SetupStep(t, i) =>
              LET reg == SetupWrites[i][1]
                  f   == SetupWrites[i][2]
                  val == SetupWrites[i][3]
              IN  /\ Field(regs'[reg], f) = val
                  /\ WBits(regs'[reg]) \ FieldBits(f) = WBits(regs[reg]) \ FieldBits(f)
                  /\ \A r \in Regs \ {reg} : regs'[r] = regs[r]]_vars

\* the compare value has been written over all ones elsewhere: TPRER keeps
\* its bits 10..31, TCTL its bit 31
C15_FieldsWritten ==
    \E t \in SeqThreads :
        /\ pc[t] = "s_ten_on"
        /\ regs[TCMP_REG] = WordMax
        /\ regs[TPRER_REG] = <<65535, 64512>>
        /\ WBit(regs[TCTL_REG], 31) = 1
        /\ Field(regs[TCTL_REG], TCTL_TEN) = Zero

\* the configuration odo_timer_setup leaves
Configured(r) ==
    /\ Field(r[TCTL_REG], TCTL_TEN) = One
    /\ Field(r[TCTL_REG], TCTL_CC) = One
    /\ Field(r[TCTL_REG], TCTL_CLKSOURCE) = W(3)
    /\ Field(r[TPRER_REG], TPRER_PRESCALER) = Zero
    /\ Field(r[TCTL_REG], TCTL_COMP_EN) = One
    /\ Field(r[TCTL_REG], TCTL_FRR) = Zero
    /\ r[TCMP_REG] = WordMax

(* C16: in odo_timer_setup TEN is 0 before and after every write but the    *)
(* first and the last, 0 after the first, 1 after the last, and on return   *)
(* TEN=1, CC=1, CLKSOURCE=3, PRESCALER=0, COMP_EN=1, FRR=0, TCMP=0xFFFFFFFF.*)
C16_SetupOrder ==
    [][\A t \in SeqThreads : \A i \in 1 .. 8 :
          SetupStep(t, i) =>
              /\ (i > 1) => Field(regs[TCTL_REG], TCTL_TEN) = Zero
              /\ (i < 8) => Field(regs'[TCTL_REG], TCTL_TEN) = Zero
              /\ (i = 8) => Configured(regs')]_vars

\* odo_timer_setup has returned on a timer found with every bit set
C16_SetupReturned ==
    \E t \in SeqThreads :
        /\ pc[t] = "s_return"
        /\ Configured(regs)
        /\ regs[TPRER_REG] = <<65535, 64512>>
        /\ WBit(regs[TCTL_REG], 31) = 1

(* C17: counter_ms changes only by +1 in the increment of a query or to 0   *)
(* in the first statement of a reset.                                       *)
C17_HighWordSteps ==
    [][\/ odo'.counter_ms = odo.counter_ms
       \/ /\ odo'.counter_ms = WInc(odo.counter_ms)
          /\ \E t \in Threads : pc[t] = "q_ms_store" /\ pc'[t] = "q_clear"
       \/ /\ odo'.counter_ms = Zero
          /\ \E t \in Threads : pc[t] = "idle" /\ pc'[t] = "r_counter_ls"]_vars

\* the statements of odo_reset_count
ResetCountLabels ==
    {"r_counter_ls", "r_disable_read", "r_disable_write", "r_msleep", "r_enable_write"}

(* C18: whenever no caller is inside odo_reset_count, whatever resets and   *)
(* queries ran or run at once, the timer holds the configuration of         *)
(* odo_timer_setup and is enabled.                                          *)
C18_ResetKeepsConfiguration ==
    (\A t \in Threads : pc[t] \notin ResetCountLabels) => Configured(regs)

\* two resets that ran at once are both returning
C18_TwoResetsDone ==
    /\ \A t \in Threads : pc[t] = "r_ret"
    /\ Configured(regs)

(* C19: the low word of the value a query returns is the count this query   *)
(* read from the hardware.                                                  *)
C19_ReturnsOwnRead ==
    \A t \in Threads : pc[t] = "q_nb_load" => out[t][2] = tmp[t]

(* C20: under fair scheduling every called query and reset returns, and a   *)
(* reset that has disabled the timer is followed by a state in which the    *)
(* timer is enabled again.                                                  *)
C20_HandlersTerminate ==
    \A t \in Threads :
        /\ (pc[t] # "idle") ~> (pc[t] = "idle")
        /\ (pc[t] = "r_msleep") ~> TimerCounting

\* a reset is in its settle delay, the timer disabled, while another caller
\* is inside a query
C20_ResetAsleepDuringQuery ==
    \E t, u \in Threads :
        /\ pc[t] = "r_msleep"
        /\ ~TimerCounting
        /\ pc[u] \in QueryLabels

(* C21: whenever no call is in progress, nb_access = 0 goes with            *)
(* first_access = 0 and last_access = 0, and nb_access > 0 with             *)
(* first_access the clock value of the first query of the epoch and         *)
(* last_access that of the latest.                                          *)
C21_TelemetryConsistent ==
    AllIdle =>
        /\ odo.nb_access = Zero => (odo.first_access = Zero /\ odo.last_access = Zero)
        /\ odo.nb_access # Zero =>
              /\ epoch_first # <<>>
              /\ odo.first_access = epoch_first[1]
              /\ odo.last_access = epoch_first[2]

\* the reads of offset[] and gpio[] made so far by odo_init and odo_exit
TableReads == {modinit.used[i] : i \in 1 .. Len(modinit.used)}

(* C22: every index odo_init and odo_exit use into the 6-element tables     *)
(* offset[] and gpio[] is within 0..5, and no table is indexed before       *)
(* gpt_id has been validated.                                                *)
C22_TableIndexValidated ==
    \A r \in TableReads : r.validated /\ r.index \in 0 .. (r.len - 1)

(* C23: once a read of inhib, clock or remaining_time has seen the watchdog *)
(* stopped (inhibit high, or no clock transition), every read of            *)
(* remaining_time begun later reports -1, until a write of 1 to trig has    *)
(* returned.                                                                 *)
C23_StoppedLatch ==
    \A t \in Threads : (pc[t] = "wr_ret" /\ latch.must[t]) => wl[t].rest = -1

\* what remaining_time is to report at clock value now while not stopped
ExpectedRemaining(w, now) ==
    LET elapsed == WSub(now, w.last_trig_s)
    IN  IF WLeq(elapsed, w.period_s) THEN ToInt(WSub(w.period_s, elapsed)) ELSE 0

(* C24: while the watchdog is not stopped, remaining_time reports period_s   *)
(* minus the seconds elapsed since the last trigger, a value in 0..period_s, *)
(* and 0 once the elapsed time exceeds period_s.                             *)
C24_RemainingClamped ==
    \A t \in Threads :
        (pc[t] = "wr_ret" /\ ~wd.stopped) =>
            /\ wl[t].rest \in 0 .. ToInt(wd.period_s)
            /\ wl[t].rest = ExpectedRemaining(wd, wl[t].now)

====
